---- MODULE Spec2Model ----
(***************************************************************************)
(* Model of the compressed prefix tree of src/src/lib.rs: Node<T> with     *)
(* its label (`key`), optional value, first child and next sibling, and    *)
(* Tree<T> with its optional root.  Tree<u32> is modelled, the one type    *)
(* on which both insert and insert_and_count are defined.                  *)
(*                                                                         *)
(* Option<X> is a sequence of length 0 (None) or 1 (Some(x)); a Box is the *)
(* value it owns.  Counts stay far below 2^32 within the bounds, so the    *)
(* u32 additions of insert_and_count never reach their overflow.           *)
(*                                                                         *)
(* Spec, SpecInsert and SpecCount take every call as one step; SpecWalk    *)
(* takes the same calls one recursive invocation at a time.                *)
(***************************************************************************)
EXTENDS Integers, Sequences, FiniteSets, TLC

\* root: Tree.root.  panicked: a call has panicked (the tree is then left as
\* the unwinding call left it and no further call is made).
\* calls, prev: the calls made so far and the root before the last of them
\* (history, not program state).
\* pc, current, remaining, arg: where a call taken one recursive invocation at
\* a time stands: the function running ("idle" between calls), the node and
\* the rest of the key of its innermost invocation, and the call's arguments.
VARIABLES root, calls, panicked, prev, pc, current, remaining, arg

vars == <<root, calls, panicked, prev, pc, current, remaining, arg>>

tree == <<root, calls, panicked, prev>>
walk == <<pc, current, remaining, arg>>

\* Bounds of the model.
MaxLen == 3
MaxOps == 3

\* Key elements and the values handed to insert.
Elems == {1, 2}
Values == {7, 9}

Keys == UNION {[1..n -> Elems] : n \in 0..MaxLen}

None == <<>>
Some(x) == <<x>>

\* Node::new / Node::boxed: a node holding the whole key, no child, no sibling.
boxed(key, value) ==
    [key |-> key, value |-> Some(value), child |-> None, sibling |-> None]

\* Node::common_prefix: the number of leading positions at which both agree.
RECURSIVE common_prefix_from(_, _, _)
common_prefix_from(a, b, n) ==
    IF n < Len(a) /\ n < Len(b) /\ a[n + 1] = b[n + 1]
    THEN common_prefix_from(a, b, n + 1)
    ELSE n

\* Faulty variant: take_while(a != b), the comparison inverted.
RECURSIVE common_prefix_inverted_from(_, _, _)
common_prefix_inverted_from(a, b, n) ==
    IF n < Len(a) /\ n < Len(b) /\ a[n + 1] # b[n + 1]
    THEN common_prefix_inverted_from(a, b, n + 1)
    ELSE n

common_prefix_inverted(label, other) == common_prefix_inverted_from(label, other, 0)

common_prefix(label, other) == common_prefix_from(label, other, 0)

\* Vec::split_off(at): the part kept, and the part returned.
split_keep(v, at) == SubSeq(v, 1, at)
split_off(v, at) == SubSeq(v, at + 1, Len(v))

\* Node::find, as an Option<&Node>.
RECURSIVE Node_find(_, _)

\* Faulty variant: the end of the key is tested before the end of the label, so
\* a key that ends inside a label matches the node.
Node_find_key_first(self, key) ==
    LET prefix == common_prefix(self.key, key) IN
    IF prefix = 0
    THEN IF self.sibling = None THEN None ELSE Node_find(self.sibling[1], key)
    ELSE IF prefix = Len(key)
         THEN Some(self)
         ELSE IF prefix = Len(self.key)
              THEN IF self.child = None THEN None
                   ELSE Node_find(self.child[1], split_off(key, prefix))
              ELSE None

\* Faulty variant: the search descends into the child instead of moving to the
\* sibling when nothing matches.
Node_find_wrong_link(self, key) ==
    LET prefix == common_prefix(self.key, key) IN
    IF prefix = 0
    THEN IF self.child = None THEN None ELSE Node_find(self.child[1], key)
    ELSE IF prefix = Len(self.key)
         THEN IF prefix = Len(key)
              THEN Some(self)
              ELSE IF self.child = None THEN None
                   ELSE Node_find(self.child[1], split_off(key, prefix))
         ELSE None

\* Faulty variant: the end of the label is tested before the empty match, so a
\* node with an empty label matches the empty key.
Node_find_label_first(self, key) ==
    LET prefix == common_prefix(self.key, key) IN
    IF prefix = Len(self.key) /\ prefix = Len(key)
    THEN Some(self)
    ELSE IF prefix = 0
         THEN IF self.sibling = None THEN None ELSE Node_find(self.sibling[1], key)
         ELSE IF prefix = Len(self.key)
              THEN IF self.child = None THEN None
                   ELSE Node_find(self.child[1], split_off(key, prefix))
              ELSE None

Node_find(self, key) ==
    LET prefix == common_prefix(self.key, key) IN
    IF prefix = 0
    THEN IF self.sibling = None THEN None ELSE Node_find(self.sibling[1], key)
    ELSE IF prefix = Len(self.key)
         THEN IF prefix = Len(key)
              THEN Some(self)
              ELSE IF self.child = None THEN None
                   ELSE Node_find(self.child[1], split_off(key, prefix))
         ELSE None

\* Tree::find.
Tree_find(t, key) == IF t = None THEN None ELSE Node_find(t[1], key)

RECURSIVE Node_find_mut(_, _)

\* Faulty variant: the descent passes the whole key on, not the part after the
\* matched prefix.
Node_find_mut_whole_key(self, key) ==
    LET prefix == common_prefix(self.key, key) IN
    IF prefix = 0
    THEN IF self.sibling = None THEN None ELSE Node_find_mut(self.sibling[1], key)
    ELSE IF prefix = Len(self.key)
         THEN IF prefix = Len(key)
              THEN Some(self)
              ELSE IF self.child = None THEN None
                   ELSE Node_find_mut(self.child[1], key)
         ELSE None

\* Node::find_mut: the node a key leads to, as a mutable reference.
Node_find_mut(self, key) ==
    LET prefix == common_prefix(self.key, key) IN
    IF prefix = 0
    THEN IF self.sibling = None THEN None ELSE Node_find_mut(self.sibling[1], key)
    ELSE IF prefix = Len(self.key)
         THEN IF prefix = Len(key)
              THEN Some(self)
              ELSE IF self.child = None THEN None
                   ELSE Node_find_mut(self.child[1], split_off(key, prefix))
         ELSE None

\* Tree::find_mut.
Tree_find_mut(t, key) == IF t = None THEN None ELSE Node_find_mut(t[1], key)

\* Faulty variant: the value is copied into the new child, not taken.
split_node_value_kept(self, prefix) ==
    [key |-> split_keep(self.key, prefix),
     value |-> self.value,
     child |-> Some([key |-> split_off(self.key, prefix),
                     value |-> self.value,
                     child |-> self.child,
                     sibling |-> None]),
     sibling |-> self.sibling]

\* Faulty variant: the old child subtree is not handed to the new child.
split_node_child_dropped(self, prefix) ==
    [key |-> split_keep(self.key, prefix),
     value |-> None,
     child |-> Some([key |-> split_off(self.key, prefix),
                     value |-> self.value,
                     child |-> None,
                     sibling |-> None]),
     sibling |-> self.sibling]

\* The node left in place by the split of lines 72-78 / 101-107.
split_node(self, prefix) ==
    [key |-> split_keep(self.key, prefix),
     value |-> None,
     child |-> Some([key |-> split_off(self.key, prefix),
                     value |-> self.value,
                     child |-> self.child,
                     sibling |-> None]),
     sibling |-> self.sibling]

\* Node::insert.
RECURSIVE Node_insert(_, _, _)
\* Faulty variant: a key that matches nothing at a node becomes that node's next
\* sibling, ahead of the rest of the chain.
Node_insert_after_self(self, key, value) ==
    LET prefix == common_prefix(self.key, key) IN
    IF prefix = 0
    THEN [self EXCEPT !.sibling = Some([boxed(key, value) EXCEPT !.sibling = self.sibling])]
    ELSE IF prefix < Len(key)
         THEN LET s == IF prefix < Len(self.key) THEN split_node(self, prefix) ELSE self
                  rest == split_off(key, prefix)
              IN IF s.child # None
                 THEN [s EXCEPT !.child = Some(Node_insert(s.child[1], rest, value))]
                 ELSE [s EXCEPT !.child = Some(boxed(rest, value))]
         ELSE self

\* Faulty variant: a key that ends where the label ends replaces the value.
Node_insert_overwrites(self, key, value) ==
    LET prefix == common_prefix(self.key, key) IN
    IF prefix = 0
    THEN IF self.sibling # None
         THEN [self EXCEPT !.sibling = Some(Node_insert(self.sibling[1], key, value))]
         ELSE [self EXCEPT !.sibling = Some(boxed(key, value))]
    ELSE IF prefix < Len(key)
         THEN LET s == IF prefix < Len(self.key) THEN split_node(self, prefix) ELSE self
                  rest == split_off(key, prefix)
              IN IF s.child # None
                 THEN [s EXCEPT !.child = Some(Node_insert(s.child[1], rest, value))]
                 ELSE [s EXCEPT !.child = Some(boxed(rest, value))]
         ELSE IF prefix = Len(self.key)
              THEN [self EXCEPT !.value = Some(value)]
              ELSE self

\* Faulty variant: a key that ends inside a label splits the node there and
\* stores the value in the shortened node.
Node_insert_splits_at_key_end(self, key, value) ==
    LET prefix == common_prefix(self.key, key) IN
    IF prefix = 0
    THEN IF self.sibling # None
         THEN [self EXCEPT !.sibling = Some(Node_insert(self.sibling[1], key, value))]
         ELSE [self EXCEPT !.sibling = Some(boxed(key, value))]
    ELSE IF prefix < Len(key)
         THEN LET s == IF prefix < Len(self.key) THEN split_node(self, prefix) ELSE self
                  rest == split_off(key, prefix)
              IN IF s.child # None
                 THEN [s EXCEPT !.child = Some(Node_insert(s.child[1], rest, value))]
                 ELSE [s EXCEPT !.child = Some(boxed(rest, value))]
         ELSE IF prefix < Len(self.key)
              THEN [split_node(self, prefix) EXCEPT !.value = Some(value)]
              ELSE self

Node_insert(self, key, value) ==
    LET prefix == common_prefix(self.key, key) IN
    IF prefix = 0
    THEN IF self.sibling # None
         THEN [self EXCEPT !.sibling = Some(Node_insert(self.sibling[1], key, value))]
         ELSE [self EXCEPT !.sibling = Some(boxed(key, value))]
    ELSE IF prefix < Len(key)
         THEN LET s == IF prefix < Len(self.key) THEN split_node(self, prefix) ELSE self
                  rest == split_off(key, prefix)
              IN IF s.child # None
                 THEN [s EXCEPT !.child = Some(Node_insert(s.child[1], rest, value))]
                 ELSE [s EXCEPT !.child = Some(boxed(rest, value))]
         ELSE self

\* Tree::insert.
\* Faulty variant: a tree without a root first gets a root with an empty label,
\* and the key is inserted next to it.
Tree_insert_sentinel(t, key, value) ==
    Some(Node_insert(IF t # None THEN t[1] ELSE boxed(<<>>, value), key, value))

Tree_insert(t, key, value) ==
    IF t # None THEN Some(Node_insert(t[1], key, value)) ELSE Some(boxed(key, value))

\* Faulty variant: unwrap_or(1), the count saved before the split forgotten.
updated_count_from_one(value, old_count) ==
    Some((IF value = None THEN 1 ELSE value[1]) + 1)

\* Faulty variant: the update left out, the value stays as the split left it.
updated_count_skipped(value, old_count) == value

\* Faulty variant: the count is carried over without the + 1 for this call.
updated_count_no_increment(value, old_count) ==
    Some(IF value = None THEN old_count ELSE value[1])

\* The self-count update of line 114: self.value.unwrap_or(old_count) + 1.
updated_count(value, old_count) ==
    Some((IF value = None THEN old_count ELSE value[1]) + 1)

\* Node::insert_and_count.  The result is the node as the call leaves it and
\* whether the call panicked (the unwrap of line 100, the panic! of line 119).
RECURSIVE Node_insert_and_count(_, _)
Node_insert_and_count(self, key) ==
    LET prefix == common_prefix(self.key, key) IN
    IF prefix = 0
    THEN IF self.sibling # None
         THEN LET r == Node_insert_and_count(self.sibling[1], key)
              IN [node |-> [self EXCEPT !.sibling = Some(r.node)], panic |-> r.panic]
         ELSE [node |-> [self EXCEPT !.sibling = Some(boxed(key, 1))], panic |-> FALSE]
    ELSE IF prefix < Len(key)
         THEN IF prefix < Len(self.key) /\ self.value = None
              THEN [node |-> self, panic |-> TRUE]
              ELSE LET old_count == IF prefix < Len(self.key) THEN self.value[1] ELSE 1
                       s == IF prefix < Len(self.key) THEN split_node(self, prefix) ELSE self
                       rest == split_off(key, prefix)
                       r == IF s.child # None
                            THEN Node_insert_and_count(s.child[1], rest)
                            ELSE [node |-> boxed(rest, 1), panic |-> FALSE]
                       linked == [s EXCEPT !.child = Some(r.node)]
                   IN IF r.panic
                      THEN [node |-> linked, panic |-> TRUE]
                      ELSE [node |-> [linked EXCEPT !.value =
                                         updated_count(s.value, old_count)],
                            panic |-> FALSE]
         ELSE IF self.value # None
              THEN [node |-> [self EXCEPT !.value = Some(self.value[1] + 1)],
                    panic |-> FALSE]
              ELSE [node |-> self, panic |-> TRUE]

\* Tree::insert_and_count.
Tree_insert_and_count(t, key) ==
    IF t # None
    THEN LET r == Node_insert_and_count(t[1], key)
         IN [tree |-> Some(r.node), panic |-> r.panic]
    ELSE [tree |-> Some(boxed(key, 1)), panic |-> FALSE]

\* Tree::new.
Init ==
    /\ root = None
    /\ calls = <<>>
    /\ panicked = FALSE
    /\ prev = None
    /\ pc = "idle"
    /\ current = None
    /\ remaining = <<>>
    /\ arg = None

\* A call of Tree::insert(key, value).
Insert(key, value) ==
    /\ ~panicked
    /\ Len(calls) < MaxOps
    /\ root' = Tree_insert(root, key, value)
    /\ prev' = root
    /\ calls' = Append(calls, [op |-> "insert", key |-> key, value |-> value])
    /\ UNCHANGED panicked
    /\ UNCHANGED walk

\* A call of Tree::insert_and_count(key).
InsertAndCount(key) ==
    /\ ~panicked
    /\ Len(calls) < MaxOps
    /\ LET r == Tree_insert_and_count(root, key)
       IN /\ root' = r.tree
          /\ panicked' = r.panic
    /\ prev' = root
    /\ calls' = Append(calls, [op |-> "insert_and_count", key |-> key, value |-> 1])
    /\ UNCHANGED walk

NextInsert == \E key \in Keys, value \in Values : Insert(key, value)

NextCount == \E key \in Keys : InsertAndCount(key)

Next == NextInsert \/ NextCount

\* A Tree<u32> on which both operations are called.
Spec == Init /\ [][Next]_vars

\* The general trie: insert alone.
SpecInsert == Init /\ [][NextInsert]_vars

\* The counting trie: insert_and_count alone.
SpecCount == Init /\ [][NextCount]_vars

(***************************************************************************)
(* The same calls taken one recursive invocation at a time.  A call starts *)
(* at the root with the whole key; each step is the recursive call the     *)
(* innermost invocation makes, on a sibling with the same key or on a      *)
(* child with the rest of it; an invocation that makes no recursive call   *)
(* ends the call, and the call's effect on the tree is applied then.       *)
(***************************************************************************)

\* Faulty variant: the search of the sibling chain calls find on self again.
Node_find_call_on_self(self, key) ==
    LET prefix == common_prefix(self.key, key) IN
    IF prefix = 0
    THEN IF self.sibling = None THEN None
         ELSE Some([node |-> self, key |-> key])
    ELSE IF prefix = Len(self.key) /\ prefix # Len(key) /\ self.child # None
         THEN Some([node |-> self.child[1], key |-> split_off(key, prefix)])
         ELSE None

\* The recursive call Node::find makes on (self, key), None if it makes none.
Node_find_call(self, key) ==
    LET prefix == common_prefix(self.key, key) IN
    IF prefix = 0
    THEN IF self.sibling = None THEN None
         ELSE Some([node |-> self.sibling[1], key |-> key])
    ELSE IF prefix = Len(self.key) /\ prefix # Len(key) /\ self.child # None
         THEN Some([node |-> self.child[1], key |-> split_off(key, prefix)])
         ELSE None

\* The recursive call Node::insert makes on (self, key), None if it makes
\* none.  After a split the call goes to the new first child.
Node_insert_call(self, key) ==
    LET prefix == common_prefix(self.key, key) IN
    IF prefix = 0
    THEN IF self.sibling = None THEN None
         ELSE Some([node |-> self.sibling[1], key |-> key])
    ELSE IF prefix < Len(key)
         THEN LET s == IF prefix < Len(self.key) THEN split_node(self, prefix) ELSE self
              IN IF s.child = None THEN None
                 ELSE Some([node |-> s.child[1], key |-> split_off(key, prefix)])
         ELSE None

\* The recursive call Node::insert_and_count makes on (self, key), None if it
\* makes none or panics first (the unwrap of line 100).
Node_insert_and_count_call(self, key) ==
    LET prefix == common_prefix(self.key, key) IN
    IF prefix = 0
    THEN IF self.sibling = None THEN None
         ELSE Some([node |-> self.sibling[1], key |-> key])
    ELSE IF prefix < Len(key)
         THEN IF prefix < Len(self.key) /\ self.value = None
              THEN None
              ELSE LET s == IF prefix < Len(self.key) THEN split_node(self, prefix)
                            ELSE self
                   IN IF s.child = None THEN None
                      ELSE Some([node |-> s.child[1], key |-> split_off(key, prefix)])
         ELSE None

\* The recursive call the innermost invocation of the running call makes.
\* Tree::find, Tree::insert and Tree::insert_and_count make none on a tree
\* without a root.
NextCall ==
    IF current = None THEN None
    ELSE CASE pc = "find" -> Node_find_call(current[1], remaining)
           [] pc = "insert" -> Node_insert_call(current[1], remaining)
           [] pc = "insert_and_count" ->
                  Node_insert_and_count_call(current[1], remaining)

\* A call starts: Tree::find(key), Tree::insert(key, value) or
\* Tree::insert_and_count(key) looks at the root.
Call(op, key, value) ==
    /\ pc = "idle"
    /\ ~panicked
    /\ Len(calls) < MaxOps
    /\ pc' = op
    /\ current' = root
    /\ remaining' = key
    /\ arg' = Some([key |-> key, value |-> value])
    /\ UNCHANGED tree

CallFind == \E key \in Keys : Call("find", key, 0)

CallInsert == \E key \in Keys, value \in Values : Call("insert", key, value)

CallInsertAndCount == \E key \in Keys : Call("insert_and_count", key, 1)

\* The innermost invocation calls find, insert or insert_and_count on the
\* next sibling or on the first child.
Recurse ==
    /\ pc # "idle"
    /\ NextCall # None
    /\ current' = Some(NextCall[1].node)
    /\ remaining' = NextCall[1].key
    /\ UNCHANGED <<pc, arg>>
    /\ UNCHANGED tree

\* The innermost invocation makes no further call: the call returns (or
\* panics), and the tree is as the whole call leaves it.
Return ==
    /\ pc # "idle"
    /\ NextCall = None
    /\ pc' = "idle"
    /\ current' = None
    /\ remaining' = <<>>
    /\ arg' = None
    /\ CASE pc = "find" -> UNCHANGED tree
         [] pc = "insert" ->
                /\ root' = Tree_insert(root, arg[1].key, arg[1].value)
                /\ prev' = root
                /\ calls' = Append(calls, [op |-> "insert", key |-> arg[1].key,
                                           value |-> arg[1].value])
                /\ UNCHANGED panicked
         [] pc = "insert_and_count" ->
                /\ LET r == Tree_insert_and_count(root, arg[1].key)
                   IN /\ root' = r.tree
                      /\ panicked' = r.panic
                /\ prev' = root
                /\ calls' = Append(calls, [op |-> "insert_and_count",
                                           key |-> arg[1].key, value |-> 1])

Step == Recurse \/ Return

NextWalk == CallFind \/ CallInsert \/ CallInsertAndCount \/ Recurse \/ Return

\* The calls step by step; a call that has started keeps running.
SpecWalk == Init /\ [][NextWalk]_vars /\ WF_vars(Step)

(***************************************************************************)
(* Vocabulary of the properties: the tree as a set of positions, read off  *)
(* the child and sibling links without any of the operations above.        *)
(***************************************************************************)

IsPrefix(a, b) == Len(a) <= Len(b) /\ SubSeq(b, 1, Len(a)) = a

\* Length of the longest common prefix, stated rather than computed.
Lcp(a, b) ==
    CHOOSE n \in 0..Len(a) :
        /\ n <= Len(b)
        /\ \A i \in 1..n : a[i] = b[i]
        /\ (n = Len(a) \/ n = Len(b) \/ a[n + 1] # b[n + 1])

\* Every node of a tree.
RECURSIVE Nodes(_)
Nodes(t) ==
    IF t = None THEN {}
    ELSE {t[1]} \cup Nodes(t[1].child) \cup Nodes(t[1].sibling)

\* The nodes of the sibling chain that starts at t, in order.
RECURSIVE Chain(_)
Chain(t) == IF t = None THEN <<>> ELSE <<t[1]>> \o Chain(t[1].sibling)

\* Every sibling chain: the root chain and the children of each node.
Chains(t) == {Chain(t)} \cup {Chain(n.child) : n \in Nodes(t)}

\* Every node with its accumulated label: the labels from the root chain
\* down to the node, concatenated.
RECURSIVE Entries(_, _)
Entries(t, acc) ==
    IF t = None THEN {}
    ELSE LET n == t[1]
         IN {[label |-> acc \o n.key, node |-> n]}
                \cup Entries(n.child, acc \o n.key)
                \cup Entries(n.sibling, acc)

CallKeys == {calls[i].key : i \in 1..Len(calls)}

OnlyInsert == \A i \in 1..Len(calls) : calls[i].op = "insert"

OnlyCount == \A i \in 1..Len(calls) : calls[i].op = "insert_and_count"

NonEmptyKeys == \A i \in 1..Len(calls) : calls[i].key # <<>>

\* How often insert_and_count was called with a key that has label as a prefix.
CountedUnder(label) ==
    Cardinality({i \in 1..Len(calls) :
        calls[i].op = "insert_and_count" /\ IsPrefix(label, calls[i].key)})

\* C1 (as claimed): once insert(K, V) has been called, and whatever other keys
\* are inserted later, find(K) returns a node whose value is V.  Stated for
\* non-empty keys, and with V any of the values inserted for K, so that neither
\* the empty key nor a second insertion of the same key is what refutes it.
RoundTrip ==
    (OnlyInsert /\ NonEmptyKeys) =>
        \A i \in 1..Len(calls) :
            LET found == Tree_find(root, calls[i].key)
            IN /\ found # None
               /\ \E j \in 1..Len(calls) :
                      /\ calls[j].key = calls[i].key
                      /\ found[1].value = Some(calls[j].value)

\* C2: in every sibling chain, no two labels share a non-empty common prefix:
\* the first elements of the non-empty labels are pairwise distinct.
PrefixInvariant ==
    \A ch \in Chains(root) :
        \A i, j \in 1..Len(ch) :
            i < j => ~(/\ ch[i].key # <<>>
                       /\ ch[j].key # <<>>
                       /\ ch[i].key[1] = ch[j].key[1])

\* C2 witness: a split has happened below a root chain of two nodes, so that
\* two chains of two nodes each exist.
PrefixInvariantWitness ==
    /\ NonEmptyKeys
    /\ Len(Chain(root)) >= 2
    /\ \E n \in Nodes(root) : Len(Chain(n.child)) >= 2

\* C3 (as claimed): in the counting trie every node's count is the number of
\* insert_and_count calls whose key has the node's accumulated label as a
\* prefix.  Stated for non-empty keys.
CountingSemantics ==
    (OnlyCount /\ NonEmptyKeys) =>
        \A e \in Entries(root, <<>>) :
            e.node.value = Some(CountedUnder(e.label))

\* C4 (as claimed): find returns no node for a key that was never inserted.
FindAbsentIsNotFound ==
    \A K \in Keys \ CallKeys : Tree_find(root, K) = None

\* K is where two inserted keys part: both extend K and differ right after it.
IsBranchPoint(K) ==
    \E K1, K2 \in CallKeys :
        /\ IsPrefix(K, K1) /\ Len(K1) > Len(K)
        /\ IsPrefix(K, K2) /\ Len(K2) > Len(K)
        /\ K1[Len(K) + 1] # K2[Len(K) + 1]

\* C4 (amended): find returns no node for a key that was never inserted, unless
\* two inserted keys part at that key; the node found there is the branch node
\* of the split and, in a tree built by insert alone, carries no value.
FindAbsentOnlyBranchPoint ==
    \A K \in Keys \ CallKeys :
        LET found == Tree_find(root, K)
        IN found # None =>
               /\ IsBranchPoint(K)
               /\ OnlyInsert => found[1].value = None

\* C4 witness: one key that was never inserted is found at a branch node, and
\* another, a proper prefix of an inserted key, is not found.
FindAbsentWitness ==
    /\ \E K \in Keys \ CallKeys : Tree_find(root, K) # None
    /\ \E K \in Keys \ CallKeys :
           /\ K # <<>>
           /\ \E K1 \in CallKeys : IsPrefix(K, K1)
           /\ Tree_find(root, K) = None

\* C5: with non-empty keys throughout, find(K) returns a node exactly when some
\* node's accumulated label is K, and it returns that node.
LookupExactness ==
    NonEmptyKeys =>
        LET entries == Entries(root, <<>>)
        IN \A K \in Keys \ {<<>>} :
               LET found == Tree_find(root, K)
                   at == {e \in entries : e.label = K}
               IN /\ found # None <=> at # {}
                  /\ found # None => \E e \in at : e.node = found[1]

\* C5 witness: a key found below the root chain, a key that ends strictly
\* inside a label, and a key that runs past a node without a matching child.
LookupExactnessWitness ==
    /\ NonEmptyKeys
    /\ root # None
    /\ \E K \in Keys : \E n \in Nodes(root[1].child) : Tree_find(root, K) = Some(n)
    /\ \E K \in Keys \ {<<>>} : \E e \in Entries(root, <<>>) :
           /\ IsPrefix(K, e.label) /\ K # e.label
           /\ Len(K) > Len(e.label) - Len(e.node.key)
           /\ Tree_find(root, K) = None
    /\ \E K \in Keys : \E e \in Entries(root, <<>>) :
           /\ IsPrefix(e.label, K) /\ K # e.label /\ e.label # <<>>
           /\ Tree_find(root, K) = None

\* C6 (as claimed): no node of the tree has an empty label.
NonEmptyLabels == \A n \in Nodes(root) : n.key # <<>>

\* The node at which an insertion of key into the chain starting at self stops
\* walking: the links followed to it, the node, and what is left of the key.
\* A sibling is followed on no common prefix, a child once the whole label is
\* matched and key elements remain.
RECURSIVE Reached(_, _, _)
Reached(self, key, path) ==
    LET p == Lcp(self.key, key) IN
    IF p = 0 /\ self.sibling # None
    THEN Reached(self.sibling[1], key, Append(path, "sibling"))
    ELSE IF 0 < p /\ p = Len(self.key) /\ p < Len(key) /\ self.child # None
         THEN Reached(self.child[1], SubSeq(key, p + 1, Len(key)), Append(path, "child"))
         ELSE [path |-> path, node |-> self, key |-> key]

\* The node a path of links leads to (None where a link is missing).
RECURSIVE At(_, _)
At(t, path) ==
    IF t = None \/ path = <<>> THEN t
    ELSE At(IF Head(path) = "child" THEN t[1].child ELSE t[1].sibling, Tail(path))

LastCall == calls[Len(calls)]

\* The last call reached a node it had to split: the label and the rest of the
\* key share p elements, 0 < p < Len(label) and p < Len(rest of the key).
SplitsAt(r) ==
    LET p == Lcp(r.node.key, r.key)
    IN 0 < p /\ p < Len(r.node.key) /\ p < Len(r.key)

\* C7: an insert that splits a node leaves it with the first p label elements,
\* no value and its old sibling link; its first child is a new node with the
\* rest of the label, the old value and the old child subtree; the rest of the
\* key with the new value is that child's only sibling.
SplitCorrectness ==
    (calls # <<>> /\ LastCall.op = "insert" /\ prev # None) =>
        LET r == Reached(prev[1], LastCall.key, <<>>)
            p == Lcp(r.node.key, r.key)
        IN SplitsAt(r) =>
               At(root, r.path) = Some(
                   [key |-> SubSeq(r.node.key, 1, p),
                    value |-> None,
                    child |-> Some(
                        [key |-> SubSeq(r.node.key, p + 1, Len(r.node.key)),
                         value |-> r.node.value,
                         child |-> r.node.child,
                         sibling |-> Some(
                             [key |-> SubSeq(r.key, p + 1, Len(r.key)),
                              value |-> Some(LastCall.value),
                              child |-> None,
                              sibling |-> None])]),
                    sibling |-> r.node.sibling])

\* C7 witness: the last insert split a node that had a value and a child
\* subtree.
SplitCorrectnessWitness ==
    /\ calls # <<>> /\ LastCall.op = "insert" /\ prev # None
    /\ LET r == Reached(prev[1], LastCall.key, <<>>)
       IN /\ SplitsAt(r)
          /\ r.node.value # None
          /\ r.node.child # None

\* C8: an insert_and_count that splits a node whose count was c leaves the
\* shortened node with count c + 1, the new child holding the rest of the
\* label with count c, and the node created for the rest of the key with
\* count 1.
CountingSplit ==
    (calls # <<>> /\ LastCall.op = "insert_and_count" /\ prev # None /\ ~panicked) =>
        LET r == Reached(prev[1], LastCall.key, <<>>)
            p == Lcp(r.node.key, r.key)
            after == At(root, r.path)
        IN (SplitsAt(r) /\ r.node.value # None) =>
               LET c == r.node.value[1]
                   inherits == after[1].child[1]
                   created == inherits.sibling[1]
               IN /\ after[1].key = SubSeq(r.node.key, 1, p)
                  /\ after[1].value = Some(c + 1)
                  /\ inherits.key = SubSeq(r.node.key, p + 1, Len(r.node.key))
                  /\ inherits.value = Some(c)
                  /\ created.key = SubSeq(r.key, p + 1, Len(r.key))
                  /\ created.value = Some(1)

\* C8 witness: the last insert_and_count split a node whose count was 2.
CountingSplitWitness ==
    /\ calls # <<>> /\ LastCall.op = "insert_and_count" /\ prev # None /\ ~panicked
    /\ LET r == Reached(prev[1], LastCall.key, <<>>)
       IN SplitsAt(r) /\ r.node.value = Some(2)

\* How often insert_and_count was called with exactly this key.
TimesCounted(K) ==
    Cardinality({i \in 1..Len(calls) :
        calls[i].op = "insert_and_count" /\ calls[i].key = K})

\* C9 (as claimed): a key counted N >= 1 times, that shares no non-empty prefix
\* with any other inserted key, is found with count N.
CountingMonotonicity ==
    \A K \in Keys :
        (/\ TimesCounted(K) >= 1
         /\ \A K2 \in CallKeys \ {K} : Lcp(K, K2) = 0) =>
            LET found == Tree_find(root, K)
            IN found # None /\ found[1].value = Some(TimesCounted(K))

\* C10: in a tree built by insert_and_count alone no call panics and every node
\* carries a count of at least 1.
CountingNeverPanics ==
    OnlyCount =>
        /\ ~panicked
        /\ \A n \in Nodes(root) : n.value # None /\ n.value[1] >= 1

\* C10 witness: a counting trie in which a node was split and a key was then
\* counted again at the split node, the two places that read a node's count.
CountingNeverPanicsWitness ==
    /\ OnlyCount /\ calls # <<>> /\ prev # None /\ ~panicked
    /\ LET r == Reached(prev[1], LastCall.key, <<>>)
       IN /\ r.key = r.node.key
          /\ r.node.child # None /\ r.node.child[1].sibling # None
          /\ At(root, r.path)[1].value = Some(r.node.value[1] + 1)

\* C11: find([]) returns no node, in the empty tree and in every tree the
\* insertions build.
FindEmptyKey == Tree_find(root, <<>>) = None

\* C11 witness: the empty key has been inserted next to a non-empty one, so the
\* tree holds a node with an empty label, and find([]) still returns no node.
FindEmptyKeyWitness ==
    /\ <<>> \in CallKeys
    /\ \E K \in CallKeys : K # <<>>
    /\ \E n \in Nodes(root) : n.key = <<>>
    /\ Tree_find(root, <<>>) = None

\* C12: the first insertion into a tree without a root creates exactly one
\* node, the root: its label is the whole key, its value the inserted value
\* (the count 1 for insert_and_count), and it has no child and no sibling.
FirstInsertion ==
    (prev = None /\ calls # <<>>) =>
        root = Some([key     |-> LastCall.key,
                     value   |-> Some(IF LastCall.op = "insert" THEN LastCall.value ELSE 1),
                     child   |-> None,
                     sibling |-> None])

\* C12 witness: a key of two elements was inserted with a value into the tree
\* without a root, and the tree now has a root.
FirstInsertionWitness ==
    /\ prev = None
    /\ Len(calls) = 1
    /\ LastCall.op = "insert"
    /\ Len(LastCall.key) = 2
    /\ root # None

\* The path to the first node of the sibling chain a path ends in.
RECURSIVE ChainHead(_)
ChainHead(path) ==
    IF path # <<>> /\ path[Len(path)] = "sibling"
    THEN ChainHead(SubSeq(path, 1, Len(path) - 1))
    ELSE path

\* The chain after is the chain before, its nodes in the same order with their
\* labels, values and child subtrees, followed by one more node.
AppendedAtEnd(before, after, node) ==
    /\ Len(after) = Len(before) + 1
    /\ \A i \in 1..Len(before) :
           /\ after[i].key = before[i].key
           /\ after[i].value = before[i].value
           /\ after[i].child = before[i].child
    /\ after[Len(after)] = node

\* The last call's key ended at a node of a chain none of whose nodes matches
\* its first element.
MatchesNoSibling(r) == r.key # <<>> /\ Lcp(r.node.key, r.key) = 0

\* C13: a key whose first element matches no node of the chain it reaches
\* becomes a new node with the whole rest of the key at the end of that chain;
\* the nodes already in the chain keep their order, labels and values.
SiblingOrder ==
    (calls # <<>> /\ prev # None /\ ~panicked) =>
        LET r == Reached(prev[1], LastCall.key, <<>>)
            head == ChainHead(r.path)
            v == IF LastCall.op = "insert" THEN LastCall.value ELSE 1
        IN MatchesNoSibling(r) =>
               AppendedAtEnd(Chain(At(prev, head)), Chain(At(root, head)),
                             boxed(r.key, v))

\* C13 witness: the last call's key matched none of the two or more nodes of
\* the chain it reached, and the chain is now one node longer.
SiblingOrderWitness ==
    /\ calls # <<>> /\ prev # None /\ ~panicked
    /\ LET r == Reached(prev[1], LastCall.key, <<>>)
           head == ChainHead(r.path)
       IN /\ MatchesNoSibling(r)
          /\ Len(Chain(At(prev, head))) >= 2
          /\ Len(Chain(At(root, head))) = Len(Chain(At(prev, head))) + 1

\* The tree with every node's value replaced by the path of links that leads to
\* the node: a Node<T> of the same shape whose values tell the positions apart.
RECURSIVE Positions(_, _)
Positions(t, path) ==
    IF t = None THEN None
    ELSE Some([key     |-> t[1].key,
               value   |-> Some(path),
               child   |-> Positions(t[1].child, Append(path, "child")),
               sibling |-> Positions(t[1].sibling, Append(path, "sibling"))])

\* C15: for every tree and key, find and find_mut both return no node or both
\* return the same node: the same label, value and subtree, at the same
\* position of the tree.
FindMutAgrees ==
    LET places == Positions(root, <<>>)
    IN \A K \in Keys :
           /\ Tree_find_mut(root, K) = Tree_find(root, K)
           /\ Tree_find_mut(places, K) = Tree_find(places, K)

\* C15 witness: find_mut returns a node with a value that lies below a child
\* link and after a sibling link, and find returns the node at that position.
FindMutAgreesWitness ==
    LET places == Positions(root, <<>>)
    IN \E K \in Keys :
           /\ Tree_find_mut(root, K) # None
           /\ Tree_find_mut(root, K)[1].value # None
           /\ LET path == Tree_find_mut(places, K)[1].value[1]
              IN /\ \E i \in 1..Len(path) : path[i] = "child"
                 /\ \E i \in 1..Len(path) : path[i] = "sibling"
                 /\ At(root, path) = Tree_find(root, K)

\* C16: an insert of key K with a value leaves every other key as it was: a key
\* K' # K for which find returned a node with value W before the call still
\* leads to a node with value W after it.
InsertPreservesOtherKeys ==
    (calls # <<>> /\ LastCall.op = "insert") =>
        \A K \in Keys \ {LastCall.key} :
            Tree_find(prev, K) # None =>
                /\ Tree_find(root, K) # None
                /\ Tree_find(root, K)[1].value = Tree_find(prev, K)[1].value

\* C16 witness: the last insert split a node that had a child subtree, and a
\* key found with a value in that subtree before the call is found with the
\* same value after it.
InsertPreservesOtherKeysWitness ==
    /\ calls # <<>> /\ LastCall.op = "insert" /\ prev # None
    /\ LET r == Reached(prev[1], LastCall.key, <<>>)
       IN /\ SplitsAt(r)
          /\ \E K \in Keys \ {LastCall.key} :
                 /\ Tree_find(prev, K) # None
                 /\ Tree_find(prev, K)[1] \in Nodes(r.node.child)
                 /\ Tree_find(prev, K)[1].value # None
                 /\ Tree_find(root, K) # None
                 /\ Tree_find(root, K)[1].value = Tree_find(prev, K)[1].value

\* The sum of the counts of the nodes of a chain (a node without a value adds 0).
RECURSIVE SumCounts(_)
SumCounts(chain) ==
    IF chain = <<>> THEN 0
    ELSE (IF Head(chain).value = None THEN 0 ELSE Head(chain).value[1])
         + SumCounts(Tail(chain))

\* C17: in a tree built by insert_and_count calls only, the counts of the root
\* chain add up to the number of calls made, and every node has a count that is
\* at least the sum of the counts of its children.
CountConservation ==
    OnlyCount =>
        /\ SumCounts(Chain(root)) = Len(calls)
        /\ \A n \in Nodes(root) :
               /\ n.value # None
               /\ n.value[1] >= SumCounts(Chain(n.child))

\* C17 witness: the counts of the root chain add up to the three calls made,
\* and some node with a child has a count above the sum of its children's.
CountConservationWitness ==
    /\ OnlyCount /\ Len(calls) = MaxOps /\ ~panicked
    /\ SumCounts(Chain(root)) = Len(calls)
    /\ \E n \in Nodes(root) :
           /\ n.value # None
           /\ n.child # None
           /\ n.value[1] > SumCounts(Chain(n.child))

\* The tree a sequence of insert_and_count calls builds from Tree::new().
RECURSIVE CountAll(_)
CountAll(keys) ==
    IF keys = <<>> THEN None
    ELSE Tree_insert_and_count(CountAll(SubSeq(keys, 1, Len(keys) - 1)),
                               keys[Len(keys)]).tree

\* The (accumulated label, count) pairs of a tree.
LabelCounts(t) == {[label |-> e.label, count |-> e.node.value] : e \in Entries(t, <<>>)}

\* The keys of the calls made, in every order.
CallOrders ==
    {[i \in 1..Len(calls) |-> calls[f[i]].key] : f \in Permutations(1..Len(calls))}

\* C18: the counts do not depend on the order of the calls: the keys of the
\* insert_and_count calls made, inserted in any other order, give the same set
\* of (accumulated label, count) pairs.
OrderIndependence ==
    OnlyCount =>
        \A keys \in CallOrders : LabelCounts(CountAll(keys)) = LabelCounts(root)

\* The last call's key was used up by matching at the node it reached: the
\* rest of the key, one element or more, is the node's label or a proper
\* prefix of it.
ConsumedAt(r) ==
    LET p == Lcp(r.node.key, r.key)
    IN 0 < p /\ p = Len(r.key)

\* C19: an insert whose key is used up at a node (the rest of the key is the
\* node's label or a proper prefix of it) leaves the whole tree as it was: no
\* node is created or split and no value is replaced.
InsertNeverOverwrites ==
    (calls # <<>> /\ LastCall.op = "insert" /\ prev # None) =>
        (ConsumedAt(Reached(prev[1], LastCall.key, <<>>)) => root = prev)

\* C19 witness: the last insert's key ended exactly at a node that stores
\* another value than the one passed, and the tree is as it was.
InsertNeverOverwritesWitness ==
    /\ calls # <<>> /\ LastCall.op = "insert" /\ prev # None
    /\ LET r == Reached(prev[1], LastCall.key, <<>>)
       IN /\ ConsumedAt(r)
          /\ r.key = r.node.key
          /\ r.node.value # None
          /\ r.node.value # Some(LastCall.value)
    /\ root = prev

\* The structure of a tree: its labels, child links and sibling links, the
\* values left out.
RECURSIVE Shape(_)
Shape(t) ==
    IF t = None THEN None
    ELSE Some([key     |-> t[1].key,
               child   |-> Shape(t[1].child),
               sibling |-> Shape(t[1].sibling)])

\* The keys of the calls made, in the order of the calls.
KeysInOrder == [i \in 1..Len(calls) |-> calls[i].key]

\* C20: the tree built by insert calls, whatever their values, has the same
\* labels, child links and sibling links as the tree built by insert_and_count
\* calls with the same keys in the same order.
SameShape ==
    OnlyInsert => Shape(CountAll(KeysInOrder)) = Shape(root)

\* C20 witness: three insert calls with both values built a tree with a child
\* link and a sibling link; insert_and_count builds the same structure from
\* the same keys, with other values.
SameShapeWitness ==
    /\ OnlyInsert /\ Len(calls) = MaxOps
    /\ \A v \in Values : \E i \in 1..Len(calls) : calls[i].value = v
    /\ \E n \in Nodes(root) : n.child # None
    /\ \E n \in Nodes(root) : n.sibling # None
    /\ Shape(CountAll(KeysInOrder)) = Shape(root)
    /\ CountAll(KeysInOrder) # root


\* C14: every find, insert and insert_and_count call ends: each recursive call
\* goes to the next sibling with the key as it is or to a child with a shorter
\* key (never to a child after a match of length 0), and no call runs for
\* ever: again and again no call is running.
StepsAdvance ==
    [][(pc # "idle" /\ pc' # "idle") =>
           \/ remaining' = remaining /\ current' = current[1].sibling
           \/ Len(remaining') < Len(remaining)]_vars

CallsReturn == []<>(pc = "idle")

Termination == StepsAdvance /\ CallsReturn

\* C14 witness: a running call has gone down to a child with a shorter key
\* and on to a sibling in the child's chain, and its innermost invocation makes
\* no further call.
TerminationWitness ==
    /\ pc # "idle"
    /\ current # None
    /\ 0 < Len(remaining) /\ Len(remaining) < Len(arg[1].key)
    /\ \E n \in Nodes(root) : n.sibling = current
    /\ NextCall = None
====
